---- MODULE Spec2Model ----
(***************************************************************************)
(* A model of the Astrielle progression backend (Astrielle_Backend.py):   *)
(* the currency ledger, the game entities, the gacha draw engine and the  *)
(* player session, in their final definitions in the script.              *)
(*                                                                         *)
(* Python values are modelled as tagged records: PyBool(b), PyNone,       *)
(* PyStr(...), PyRaise(exc) for an exception that left the call, and an   *)
(* Item record for an Item object.  `op` is the name of the last call     *)
(* and `ret` its outcome.  `tally` is a history variable the code does    *)
(* not have: the Gacha Tokens added so far, the roll_gacha calls that     *)
(* returned an item and the use_item calls that succeeded.                *)
(***************************************************************************)
EXTENDS Integers, Sequences, FiniteSets, TLC

VARIABLES balances, inventory, games, gacha, op, ret, tally

vars == <<balances, inventory, games, gacha, op, ret, tally>>

(***************************************************************************)
(* Bounds of the model.                                                    *)
(***************************************************************************)
MaxAmount == 2
NegAmount == 1
MaxBalance == 2
MaxBase == 250
MaxBonus == 4
MaxPlaytime == 250
MaxInventory == 2
MaxProgress == 4
MaxSpeed == 2
MaxCatalog == 3
MaxGranted == 2

(***************************************************************************)
(* Python values.                                                          *)
(***************************************************************************)
PyNone == [type |-> "NoneType"]

PyBool(b) == [type |-> "bool", val |-> b]

PyStr(fmt, args) == [type |-> "str", fmt |-> fmt, args |-> args]

PyRaise(exc) == [type |-> "raise", exc |-> exc]

Range(s) == {s[i] : i \in 1..Len(s)}

(***************************************************************************)
(* Currency                                                                *)
(***************************************************************************)
Kinds == {"Base Coins", "Bonus Coins", "Milestone Coins", "Gacha Tokens"}

UnknownKind == "Diamonds"

CurrencyTypes == Kinds \cup {UnknownKind}

Currency_init == [k \in Kinds |-> 0]

\* dict.get(key, default)
DictGet(d, key, default) == IF key \in DOMAIN d THEN d[key] ELSE default

Currency_add(b, currency_type, amount) ==
    IF currency_type \in DOMAIN b
    THEN [b EXCEPT ![currency_type] = @ + amount]
    ELSE b

\* spend with `>` for `>=`: a balance equal to the amount is refused
Currency_spend_strict(b, currency_type, amount) ==
    IF DictGet(b, currency_type, 0) > amount
    THEN IF currency_type \in DOMAIN b
         THEN [balances |-> [b EXCEPT ![currency_type] = @ - amount],
               ret |-> PyBool(TRUE)]
         ELSE [balances |-> b, ret |-> PyRaise("KeyError")]
    ELSE [balances |-> b, ret |-> PyBool(FALSE)]

\* spend whose test is against 0 instead of the amount
Currency_spend_overdraw(b, currency_type, amount) ==
    IF DictGet(b, currency_type, 0) >= 0
    THEN IF currency_type \in DOMAIN b
         THEN [balances |-> [b EXCEPT ![currency_type] = @ - amount],
               ret |-> PyBool(TRUE)]
         ELSE [balances |-> b, ret |-> PyRaise("KeyError")]
    ELSE [balances |-> b, ret |-> PyBool(FALSE)]

\* The outcome of spend: the balances after the call and what it returned.
\* `self.balances[currency_type] -= amount` reads the key first, so on a
\* key that is absent it raises KeyError and stores nothing.
Currency_spend(b, currency_type, amount) ==
    IF DictGet(b, currency_type, 0) >= amount
    THEN IF currency_type \in DOMAIN b
         THEN [balances |-> [b EXCEPT ![currency_type] = @ - amount],
               ret |-> PyBool(TRUE)]
         ELSE [balances |-> b, ret |-> PyRaise("KeyError")]
    ELSE [balances |-> b, ret |-> PyBool(FALSE)]

(***************************************************************************)
(* Game, RunningGame, IdleGame                                             *)
(***************************************************************************)
\* required_item = None; None and "" are both false in `if self.required_item`
NoRequiredItem == ""

Game_init(name, required_item) ==
    [class |-> "Game", name |-> name, required_item |-> required_item,
     playtime_remaining |-> 0]

RunningGame_init ==
    [Game_init("Running Game", NoRequiredItem) EXCEPT !.class = "RunningGame"]

DISTANCE_PER_COIN == 10
TIME_PER_BONUS_COIN == 30
MILESTONE_FEET == 1000

IdleGame_init(name) ==
    [class |-> "IdleGame", name |-> name, required_item |-> NoRequiredItem,
     playtime_remaining |-> 0, progress_value |-> 0, speed_multiplier |-> 1]

Game_add_playtime(g, time_seconds) ==
    [g EXCEPT !.playtime_remaining = @ + time_seconds]

IdleGame_add_playtime(g, time_seconds) ==
    [g EXCEPT !.playtime_remaining = @ + time_seconds]

\* method dispatch of game.add_playtime(...)
add_playtime(g, time_seconds) ==
    IF g.class = "IdleGame"
    THEN IdleGame_add_playtime(g, time_seconds)
    ELSE Game_add_playtime(g, time_seconds)

\* play with `>` for `>=`
Game_play_strict(g, time_seconds) ==
    IF g.playtime_remaining > time_seconds
    THEN [game |-> [g EXCEPT !.playtime_remaining = @ - time_seconds],
          ret |-> PyBool(TRUE)]
    ELSE [game |-> g, ret |-> PyBool(FALSE)]

\* play without the test of the remaining playtime
Game_play_unchecked(g, time_seconds) ==
    [game |-> [g EXCEPT !.playtime_remaining = @ - time_seconds],
     ret |-> PyBool(TRUE)]

Game_play(g, time_seconds) ==
    IF g.playtime_remaining >= time_seconds
    THEN [game |-> [g EXCEPT !.playtime_remaining = @ - time_seconds],
          ret |-> PyBool(TRUE)]
    ELSE [game |-> g, ret |-> PyBool(FALSE)]

\* Game.get_status(), which RunningGame inherits
Game_get_status(g) ==
    PyStr("{name}: Playtime Remaining {playtime_remaining}s, Requires: {required_item}",
          <<g.name, g.playtime_remaining,
            IF g.required_item # "" THEN g.required_item ELSE "None">>)

\* IdleGame.get_status(); {progress_value:.2f} keeps the value's two decimals
IdleGame_get_status(g) ==
    PyStr("{name}: Progress {progress_value:.2f}, Speed Multiplier {speed_multiplier}, Playtime Remaining {playtime_remaining}s",
          <<g.name, g.progress_value, g.speed_multiplier, g.playtime_remaining>>)

get_status(g) ==
    IF g.class = "IdleGame" THEN IdleGame_get_status(g) ELSE Game_get_status(g)

\* can_play with all(...) for any(...)
Game_can_play_all(g, inv) ==
    IF g.required_item # ""
       /\ ~(\A k \in 1..Len(inv) : inv[k].name = g.required_item)
    THEN PyBool(FALSE)
    ELSE PyBool(TRUE)

\* can_play(user), of user.inventory; `self.required_item and ...` is false
\* for None and for the empty string
Game_can_play(g, inv) ==
    IF g.required_item # ""
       /\ ~(\E k \in 1..Len(inv) : inv[k].name = g.required_item)
    THEN PyBool(FALSE)
    ELSE PyBool(TRUE)

IdleGame_progress(g, time_elapsed) ==
    [g EXCEPT !.progress_value = @ + time_elapsed * g.speed_multiplier]

\* boost_progress with = for +=
IdleGame_boost_progress_set(g, multiplier) ==
    [g EXCEPT !.speed_multiplier = multiplier]

IdleGame_boost_progress(g, multiplier) ==
    [g EXCEPT !.speed_multiplier = @ + multiplier]

(***************************************************************************)
(* Item, Gacha                                                             *)
(***************************************************************************)
Item(name, rarity, description, item_type) ==
    [type |-> "Item", name |-> name, rarity |-> rarity,
     description |-> description, item_type |-> item_type]

load_items ==
    << Item("Meteorite Fragment", "Common", "A small chunk of space rock.", "Collectible"),
       Item("Mining Laser", "Rare", "Required to play Asteroid Mining.", "Equippable"),
       Item("Gravity Boots", "Epic", "Required to play Zero-G Racing.", "Equippable"),
       Item("Fuel Cell", "Legendary", "Doubles playtime of any game when used.", "Consumable") >>

rarity_weights ==
    [r \in {"Common", "Rare", "Epic", "Legendary"} |->
        CASE r = "Common" -> 60
          [] r = "Rare" -> 25
          [] r = "Epic" -> 10
          [] r = "Legendary" -> 5]

\* str(item), which is Item.__repr__
Item_repr(item) ==
    PyStr("{rarity} {item_type} Item: {name} - {description}",
          <<item.rarity, item.item_type, item.name, item.description>>)

\* Gacha.__init__ stores the list and the weight table, nothing else.
Gacha_init(items) == [items |-> items, rarity_weights |-> rarity_weights]

\* [x] * n
Replicate(x, n) == [i \in 1..n |-> x]

\* a weighted list with one share per rarity: an item whose rarity an earlier
\* item already has adds no copies
RECURSIVE WeightedFrom_bucket(_, _, _)
WeightedFrom_bucket(g, i, acc) ==
    IF i > Len(g.items) THEN [raised |-> FALSE, list |-> acc]
    ELSE IF g.items[i].rarity \notin DOMAIN g.rarity_weights
         THEN [raised |-> TRUE, list |-> acc]
         ELSE IF \E k \in 1..(i - 1) : g.items[k].rarity = g.items[i].rarity
              THEN WeightedFrom_bucket(g, i + 1, acc)
              ELSE WeightedFrom_bucket(g, i + 1,
                       acc \o Replicate(g.items[i], g.rarity_weights[g.items[i].rarity]))

\* The loop of roll(): the weighted list built from items[i..], or the
\* KeyError of the first rarity that is not in the weight table.
RECURSIVE WeightedFrom(_, _, _)
WeightedFrom(g, i, acc) ==
    IF i > Len(g.items) THEN [raised |-> FALSE, list |-> acc]
    ELSE IF g.items[i].rarity \notin DOMAIN g.rarity_weights
         THEN [raised |-> TRUE, list |-> acc]
         ELSE WeightedFrom(g, i + 1,
                  acc \o Replicate(g.items[i], g.rarity_weights[g.items[i].rarity]))

weighted_items(g) == WeightedFrom(g, 1, << >>)

\* a roll that always returns the head of the weighted list
Gacha_roll_head(g) ==
    LET w == weighted_items(g)
    IN  IF w.raised THEN {PyRaise("KeyError")}
        ELSE IF w.list = << >> THEN {PyRaise("IndexError")}
        ELSE {w.list[1]}

\* The outcomes roll() can have: random.choice returns any element of the
\* weighted list, and raises IndexError on an empty one.
Gacha_roll(g) ==
    LET w == weighted_items(g)
    IN  IF w.raised THEN {PyRaise("KeyError")}
        ELSE IF w.list = << >> THEN {PyRaise("IndexError")}
        ELSE Range(w.list)

(***************************************************************************)
(* User                                                                    *)
(***************************************************************************)
GameNames == {"Running", "Idle", "Asteroid Mining", "Zero-G Racing"}

\* the name the script gives its user; no method changes it
User_name == "Astrielle Pilot"

User_games ==
    [n \in GameNames |->
        CASE n = "Running" -> RunningGame_init
          [] n = "Idle" -> IdleGame_init("Space Colony Expansion")
          [] n = "Asteroid Mining" -> Game_init("Asteroid Mining", "Mining Laser")
          [] n = "Zero-G Racing" -> Game_init("Zero-G Racing", "Gravity Boots")]

Init ==
    /\ balances = Currency_init
    /\ inventory = << >>
    /\ games = User_games
    /\ gacha = Gacha_init(load_items)
    /\ op = "init"
    /\ ret = PyNone
    /\ tally = [added |-> 0, rolled |-> 0, used |-> 0]

\* The model's bounds on the values a step may produce.
InBounds(b, gs) ==
    /\ b["Base Coins"] <= MaxBase
    /\ b["Bonus Coins"] <= MaxBonus
    /\ \A n \in DOMAIN gs : gs[n].playtime_remaining <= MaxPlaytime
    /\ gs["Idle"].progress_value <= MaxProgress
    /\ gs["Idle"].speed_multiplier <= MaxSpeed

\* progress without the `game.name != "Running Game"` filter
RunningGame_progress_all(distance, time_seconds, b, gs) ==
    LET b1 == Currency_add(b, "Base Coins", distance \div DISTANCE_PER_COIN)
        b2 == Currency_add(b1, "Bonus Coins", time_seconds \div TIME_PER_BONUS_COIN)
        b3 == Currency_add(b2, "Milestone Coins", distance \div MILESTONE_FEET)
    IN  [balances |-> b3,
         games |-> [n \in DOMAIN gs |-> add_playtime(gs[n], time_seconds)]]

\* RunningGame.progress: the three credits, then the playtime fan-out over
\* user.games.values().
RunningGame_progress(distance, time_seconds, b, gs) ==
    LET b1 == Currency_add(b, "Base Coins", distance \div DISTANCE_PER_COIN)
        b2 == Currency_add(b1, "Bonus Coins", time_seconds \div TIME_PER_BONUS_COIN)
        b3 == Currency_add(b2, "Milestone Coins", distance \div MILESTONE_FEET)
    IN  [balances |-> b3,
         games |-> [n \in DOMAIN gs |->
                      IF gs[n].name # "Running Game"
                      THEN add_playtime(gs[n], time_seconds)
                      ELSE gs[n]]]

User_run(distance, time_seconds, b, gs) ==
    RunningGame_progress(distance, time_seconds, b, gs)

User_idle_progress(gs, time_elapsed) ==
    [gs EXCEPT !["Idle"] = IdleGame_progress(@, time_elapsed)]

\* Currency.get_balances() returns the balances dict itself
Currency_get_balances(b) == b

\* get_status() that lists the inventory newest first
User_get_status_reversed(b, inv, gs) ==
    [type |-> "dict",
     Name |-> User_name,
     Currency |-> Currency_get_balances(b),
     Inventory |-> [k \in 1..Len(inv) |-> Item_repr(inv[Len(inv) + 1 - k])],
     Games |-> [n \in DOMAIN gs |-> get_status(gs[n])]]

User_get_status(b, inv, gs) ==
    [type |-> "dict",
     Name |-> User_name,
     Currency |-> Currency_get_balances(b),
     Inventory |-> [k \in 1..Len(inv) |-> Item_repr(inv[k])],
     Games |-> [n \in DOMAIN gs |-> get_status(gs[n])]]

\* roll_gacha that keeps a relabelled copy of the item it drew
User_roll_gacha_copy(b, inv, g) ==
    LET sp == Currency_spend(b, "Gacha Tokens", 1)
    IN  IF sp.ret = PyBool(TRUE)
        THEN {IF r.type = "raise"
              THEN [balances |-> sp.balances, inventory |-> inv, ret |-> r]
              ELSE [balances |-> sp.balances,
                    inventory |-> Append(inv, [r EXCEPT !.description = "Rolled."]),
                    ret |-> r]
                : r \in Gacha_roll(g)}
        ELSE {[balances |-> sp.balances, inventory |-> inv, ret |-> PyNone]}

\* roll_gacha that rolls whether or not the token was spent
User_roll_gacha_unpaid(b, inv, g) ==
    LET sp == Currency_spend(b, "Gacha Tokens", 1)
    IN  {IF r.type = "raise"
         THEN [balances |-> sp.balances, inventory |-> inv, ret |-> r]
         ELSE [balances |-> sp.balances, inventory |-> Append(inv, r), ret |-> r]
           : r \in Gacha_roll(g)}

\* The outcomes of roll_gacha: one per outcome of gacha.roll() once the
\* token is spent.  An exception out of spend or roll leaves the call with
\* what was done before it.
User_roll_gacha(b, inv, g) ==
    LET sp == Currency_spend(b, "Gacha Tokens", 1)
    IN  IF sp.ret = PyBool(TRUE)
        THEN {IF r.type = "raise"
              THEN [balances |-> sp.balances, inventory |-> inv, ret |-> r]
              ELSE [balances |-> sp.balances, inventory |-> Append(inv, r), ret |-> r]
                : r \in Gacha_roll(g)}
        ELSE IF sp.ret = PyBool(FALSE)
        THEN {[balances |-> sp.balances, inventory |-> inv, ret |-> PyNone]}
        ELSE {[balances |-> sp.balances, inventory |-> inv, ret |-> sp.ret]}

\* a remove that drops nothing
ListRemove_none(s, x) == s

\* a remove that drops every element equal to x
ListRemove_all(s, x) == SelectSeq(s, LAMBDA e : e # x)

\* list.remove(x): drops the first element equal to x.  Item defines no
\* __eq__, so equal means the same object; the inventory holds references
\* to the catalog's items, which are distinct, so equal records here.
RECURSIVE ListRemove(_, _)
ListRemove(s, x) ==
    IF s = << >> THEN << >>
    ELSE IF Head(s) = x THEN Tail(s)
    ELSE <<Head(s)>> \o ListRemove(Tail(s), x)

NotFoundMsg == PyStr("Item not found or not usable.", << >>)

UsedMsg(item_name, game_name) ==
    PyStr("Used {item_name} on {game_name}. Playtime doubled!", <<item_name, game_name>>)

\* The loop of use_item from inventory[i] on.
RECURSIVE UseItemFrom(_, _, _, _, _)
UseItemFrom(inv, gs, item_name, game_name, i) ==
    IF i > Len(inv)
    THEN [inventory |-> inv, games |-> gs, ret |-> NotFoundMsg]
    ELSE IF inv[i].name = item_name /\ inv[i].item_type = "Consumable"
              /\ game_name \in DOMAIN gs
         THEN [inventory |-> ListRemove(inv, inv[i]),
               games |-> [gs EXCEPT ![game_name] =
                            add_playtime(@, @.playtime_remaining)],
               ret |-> UsedMsg(item_name, game_name)]
         ELSE UseItemFrom(inv, gs, item_name, game_name, i + 1)

\* use_item that takes the item out before it looks the game up
RECURSIVE UseItemFrom_eager(_, _, _, _, _)
UseItemFrom_eager(inv, gs, item_name, game_name, i) ==
    IF i > Len(inv)
    THEN [inventory |-> inv, games |-> gs, ret |-> NotFoundMsg]
    ELSE IF inv[i].name = item_name /\ inv[i].item_type = "Consumable"
         THEN IF game_name \in DOMAIN gs
              THEN [inventory |-> ListRemove(inv, inv[i]),
                    games |-> [gs EXCEPT ![game_name] =
                                 add_playtime(@, @.playtime_remaining)],
                    ret |-> UsedMsg(item_name, game_name)]
              ELSE [inventory |-> ListRemove(inv, inv[i]), games |-> gs,
                    ret |-> NotFoundMsg]
         ELSE UseItemFrom_eager(inv, gs, item_name, game_name, i + 1)

User_use_item_eager(inv, gs, item_name, game_name) ==
    UseItemFrom_eager(inv, gs, item_name, game_name, 1)

\* use_item without the test of the usage category
RECURSIVE UseItemFrom_anytype(_, _, _, _, _)
UseItemFrom_anytype(inv, gs, item_name, game_name, i) ==
    IF i > Len(inv)
    THEN [inventory |-> inv, games |-> gs, ret |-> NotFoundMsg]
    ELSE IF inv[i].name = item_name /\ game_name \in DOMAIN gs
         THEN [inventory |-> ListRemove(inv, inv[i]),
               games |-> [gs EXCEPT ![game_name] =
                            add_playtime(@, @.playtime_remaining)],
               ret |-> UsedMsg(item_name, game_name)]
         ELSE UseItemFrom_anytype(inv, gs, item_name, game_name, i + 1)

User_use_item_anytype(inv, gs, item_name, game_name) ==
    UseItemFrom_anytype(inv, gs, item_name, game_name, 1)

User_use_item(inv, gs, item_name, game_name) ==
    UseItemFrom(inv, gs, item_name, game_name, 1)

(***************************************************************************)
(* Inputs                                                                  *)
(***************************************************************************)
AddAmounts == 0..MaxAmount

SpendAmounts == (0 - NegAmount)..MaxAmount

\* (distance, time_seconds) of a run: nothing, a run too short for any
\* reward, and one about the size of the script's run(2500, 120) in which
\* each of the three divisions has a remainder
RunInputs == {<<0, 0>>, <<5, 0>>, <<2505, 125>>}

Seconds == {0, 125}

PlayAmounts == {0, 125, 250}

\* durations for a direct call on an entity, a negative one included
AnyDurations == {-125, 0, 125, 250}

ElapsedTimes == {0, 2}

Multipliers == 0..1

\* the catalog's Consumable and an Equippable; either is also a name the
\* inventory does not hold, whenever it has not been rolled
ItemNames == {"Fuel Cell", "Mining Laser"}

UnknownGame == "Chess"

GameArgs == GameNames \cup {UnknownGame}

\* the entities RunningGame.progress gives playtime to
FedGames == {n \in GameNames : User_games[n].name # "Running Game"}

(***************************************************************************)
(* Actions                                                                 *)
(***************************************************************************)
\* currency.add(currency_type, amount)
Add(currency_type, amount) ==
    LET b == Currency_add(balances, currency_type, amount)
        granted == IF currency_type = "Gacha Tokens" THEN amount ELSE 0
    IN  /\ \A k \in DOMAIN b : b[k] # balances[k] => b[k] <= MaxBalance
        /\ tally.added + granted <= MaxGranted
        /\ balances' = b
        /\ op' = "add"
        /\ ret' = PyNone
        /\ tally' = [tally EXCEPT !.added = @ + granted]
        /\ UNCHANGED <<inventory, games, gacha>>

\* currency.spend(currency_type, amount)
Spend(currency_type, amount) ==
    LET sp == Currency_spend(balances, currency_type, amount)
    IN  /\ \A k \in DOMAIN sp.balances :
              sp.balances[k] # balances[k] => sp.balances[k] <= MaxBalance
        /\ balances' = sp.balances
        /\ op' = "spend"
        /\ ret' = sp.ret
        /\ UNCHANGED <<inventory, games, gacha, tally>>

\* user.run(distance, time_seconds)
Run(distance, time_seconds) ==
    LET r == User_run(distance, time_seconds, balances, games)
    IN  /\ InBounds(r.balances, r.games)
        /\ balances' = r.balances
        /\ games' = r.games
        /\ op' = "run"
        /\ ret' = PyNone
        /\ UNCHANGED <<inventory, gacha, tally>>

\* user.idle_progress(time_elapsed)
IdleProgress(time_elapsed) ==
    LET gs == User_idle_progress(games, time_elapsed)
    IN  /\ InBounds(balances, gs)
        /\ games' = gs
        /\ op' = "idle_progress"
        /\ ret' = PyNone
        /\ UNCHANGED <<balances, inventory, gacha, tally>>

\* user.games["Idle"].boost_progress(multiplier)
BoostProgress(multiplier) ==
    LET gs == [games EXCEPT !["Idle"] = IdleGame_boost_progress(@, multiplier)]
    IN  /\ InBounds(balances, gs)
        /\ games' = gs
        /\ op' = "boost_progress"
        /\ ret' = PyNone
        /\ UNCHANGED <<balances, inventory, gacha, tally>>

\* user.roll_gacha()
RollGacha ==
    \E r \in User_roll_gacha(balances, inventory, gacha) :
        /\ Len(r.inventory) <= MaxInventory
        /\ balances' = r.balances
        /\ inventory' = r.inventory
        /\ op' = "roll_gacha"
        /\ ret' = r.ret
        /\ tally' = [tally EXCEPT !.rolled = @ + (IF r.ret.type = "Item" THEN 1 ELSE 0)]
        /\ UNCHANGED <<games, gacha>>

\* user.use_item(item_name, game_name)
UseItem(item_name, game_name) ==
    LET r == User_use_item(inventory, games, item_name, game_name)
    IN  /\ InBounds(balances, r.games)
        /\ inventory' = r.inventory
        /\ games' = r.games
        /\ op' = "use_item"
        /\ ret' = r.ret
        /\ tally' = [tally EXCEPT !.used = @ + (IF r.ret = UsedMsg(item_name, game_name) THEN 1 ELSE 0)]
        /\ UNCHANGED <<balances, gacha>>

\* user.games[n].add_playtime(time_seconds)
AddPlaytime(n, time_seconds) ==
    LET gs == [games EXCEPT ![n] = add_playtime(@, time_seconds)]
    IN  /\ InBounds(balances, gs)
        /\ games' = gs
        /\ op' = "add_playtime"
        /\ ret' = PyNone
        /\ UNCHANGED <<balances, inventory, gacha, tally>>

\* a play that asks can_play first and refuses a locked game
Play_gated(n, time_seconds) ==
    LET r == IF Game_can_play(games[n], inventory) = PyBool(TRUE)
             THEN Game_play(games[n], time_seconds)
             ELSE [game |-> games[n], ret |-> PyBool(FALSE)]
    IN  /\ InBounds(balances, [games EXCEPT ![n] = r.game])
        /\ games' = [games EXCEPT ![n] = r.game]
        /\ op' = "play"
        /\ ret' = r.ret
        /\ UNCHANGED <<balances, inventory, gacha, tally>>

\* user.games[n].play(time_seconds)
Play(n, time_seconds) ==
    LET r == Game_play(games[n], time_seconds)
    IN  /\ InBounds(balances, [games EXCEPT ![n] = r.game])
        /\ games' = [games EXCEPT ![n] = r.game]
        /\ op' = "play"
        /\ ret' = r.ret
        /\ UNCHANGED <<balances, inventory, gacha, tally>>

\* user.get_status()
GetStatus ==
    /\ op' = "get_status"
    /\ ret' = User_get_status(balances, inventory, games)
    /\ UNCHANGED <<balances, inventory, games, gacha, tally>>

\* user.games[n].can_play(user)
CanPlay(n) ==
    /\ op' = "can_play"
    /\ ret' = Game_can_play(games[n], inventory)
    /\ UNCHANGED <<balances, inventory, games, gacha, tally>>

\* user.currency.add("Gacha Tokens", amount), within the number of items
\* the model lets the session hold.
GrantTokens(amount) ==
    /\ balances["Gacha Tokens"] + amount + Len(inventory) <= MaxInventory
    /\ Add("Gacha Tokens", amount)

\* The player session: the User operations, the direct calls on the game
\* entities that running feeds, and tokens granted through its ledger.
Next ==
    \/ \E a \in AddAmounts : GrantTokens(a)
    \/ \E r \in RunInputs : Run(r[1], r[2])
    \/ \E t \in ElapsedTimes : IdleProgress(t)
    \/ RollGacha
    \/ \E i \in ItemNames, g \in GameArgs : UseItem(i, g)
    \/ \E n \in FedGames, t \in Seconds : AddPlaytime(n, t)
    \/ \E n \in GameNames, t \in PlayAmounts : Play(n, t)

Spec == Init /\ [][Next]_vars

\* The session with its two queries, get_status and can_play, asked between
\* the User operations.
StatusNext ==
    \/ \E a \in AddAmounts : GrantTokens(a)
    \/ \E r \in RunInputs : Run(r[1], r[2])
    \/ \E t \in ElapsedTimes : IdleProgress(t)
    \/ RollGacha
    \/ \E i \in ItemNames, g \in GameArgs : UseItem(i, g)
    \/ \E n \in GameNames, t \in PlayAmounts : Play(n, t)
    \/ \E n \in GameNames : CanPlay(n)
    \/ GetStatus

StatusSpec == Init /\ [][StatusNext]_vars

\* The ledger on its own: any add and spend, unknown kinds included.
LedgerNext ==
    \/ \E k \in CurrencyTypes, a \in AddAmounts : Add(k, a)
    \/ \E k \in CurrencyTypes, a \in SpendAmounts : Spend(k, a)

LedgerSpec == Init /\ [][LedgerNext]_vars

\* A game entity on its own: add_playtime and play on each of the four.
GameNext ==
    \/ \E n \in GameNames, t \in Seconds : AddPlaytime(n, t)
    \/ \E n \in GameNames, t \in AnyDurations : Play(n, t)

GameSpec == Init /\ [][GameNext]_vars

\* The Idle entity: its own calls, interleaved with the session's.
IdleNext ==
    \/ \E t \in ElapsedTimes : IdleProgress(t)
    \/ \E m \in Multipliers : BoostProgress(m)
    \/ \E t \in Seconds : AddPlaytime("Idle", t)
    \/ \E t \in PlayAmounts : Play("Idle", t)
    \/ \E r \in RunInputs : Run(r[1], r[2])
    \/ \E a \in AddAmounts : GrantTokens(a)
    \/ RollGacha
    \/ \E i \in ItemNames, g \in GameArgs : UseItem(i, g)

IdleSpec == Init /\ [][IdleNext]_vars

(***************************************************************************)
(* The draw engine on its own: Gacha(items) over any catalog, and roll().  *)
(***************************************************************************)
UnknownRarityItem == Item("Warp Core", "Mythic", "Not in the weight table.", "Collectible")

\* a second item of a rarity the catalog already has
SecondCommonItem == Item("Space Dust", "Common", "Shares a rarity.", "Collectible")

CatalogItems == Range(load_items) \cup {UnknownRarityItem, SecondCommonItem}

Catalogs == UNION {[1..n -> CatalogItems] : n \in 0..MaxCatalog}

\* gacha = Gacha(items)
NewGacha(items) ==
    /\ gacha' = Gacha_init(items)
    /\ op' = "Gacha"
    /\ ret' = PyNone
    /\ UNCHANGED <<balances, inventory, games, tally>>

\* gacha.roll()
Roll ==
    \E r \in Gacha_roll(gacha) :
        /\ op' = "roll"
        /\ ret' = r
        /\ UNCHANGED <<balances, inventory, games, gacha, tally>>

GachaNext ==
    \/ \E items \in Catalogs : NewGacha(items)
    \/ Roll

GachaSpec == Init /\ [][GachaNext]_vars

(***************************************************************************)
(* Properties                                                              *)
(***************************************************************************)

\* C1: spend(K, A) on a ledger kind returns true exactly when the balance of
\* K is at least A; it then takes exactly A from K, otherwise it changes
\* nothing; the other kinds and the rest of the session are untouched.
C1_SpendAtomic ==
    [][\A K \in Kinds, A \in SpendAmounts :
         (op' = "spend" /\ Spend(K, A)) =>
           /\ ret' = PyBool(balances[K] >= A)
           /\ balances[K] >= A => balances'[K] = balances[K] - A
           /\ ~(balances[K] >= A) => balances'[K] = balances[K]
           /\ \A J \in Kinds \ {K} : balances'[J] = balances[J]
           /\ DOMAIN balances' = Kinds]_vars

C1_Witness ==
    /\ op = "spend"
    /\ ret = PyBool(TRUE)
    /\ \E k \in Kinds : balances[k] > 0

\* C2: whatever adds (of amounts >= 0) and spends were made on a fresh
\* ledger, no balance is below zero.
C2_NonNegative == \A k \in Kinds : balances[k] >= 0

C2_Witness ==
    /\ op = "spend"
    /\ ret = PyBool(FALSE)
    /\ \E k \in Kinds : balances[k] = MaxBalance

\* C3: roll_gacha with no Gacha Tokens returns None and changes nothing;
\* with at least one it takes exactly one token, appends exactly one item
\* to the end of the inventory and returns that item; the games and the
\* other balances are untouched.
C3_GachaGating ==
    [][(op' = "roll_gacha" /\ RollGacha) =>
         IF balances["Gacha Tokens"] = 0
         THEN /\ ret' = PyNone
              /\ UNCHANGED <<balances, inventory, games>>
         ELSE /\ balances["Gacha Tokens"] >= 1
              /\ balances' = [balances EXCEPT !["Gacha Tokens"] = @ - 1]
              /\ Len(inventory') = Len(inventory) + 1
              /\ SubSeq(inventory', 1, Len(inventory)) = inventory
              /\ ret'.type = "Item"
              /\ ret' = inventory'[Len(inventory')]
              /\ UNCHANGED games]_vars

C3_Witness ==
    /\ op = "roll_gacha"
    /\ ret.type = "Item"
    /\ Len(inventory) = 2
    /\ inventory[2] = ret
    /\ balances["Gacha Tokens"] = 0

\* C4: run(distance, seconds) adds floor(distance/10) Base Coins,
\* floor(seconds/30) Bonus Coins and floor(distance/1000) Milestone Coins,
\* leaves Gacha Tokens and the inventory alone, adds exactly seconds to the
\* playtime of every entity but Running, gated or not, and leaves the
\* Running entity as it was.
C4_RunRewards ==
    [][\A r \in RunInputs :
         (op' = "run" /\ Run(r[1], r[2])) =>
           LET d == r[1]
               s == r[2]
           IN
           /\ balances' = [balances EXCEPT
                             !["Base Coins"] = @ + (d \div 10),
                             !["Bonus Coins"] = @ + (s \div 30),
                             !["Milestone Coins"] = @ + (d \div 1000)]
           /\ inventory' = inventory
           /\ \A n \in GameNames \ {"Running"} :
                 games'[n] = [games[n] EXCEPT !.playtime_remaining = @ + s]
           /\ games'["Running"] = games["Running"]
           /\ DOMAIN games' = GameNames]_vars

C4_Witness ==
    /\ op = "run"
    /\ balances["Base Coins"] = 250
    /\ balances["Bonus Coins"] = 4
    /\ balances["Milestone Coins"] = 2
    /\ \A n \in GameNames \ {"Running"} : games[n].playtime_remaining = 125
    /\ games["Running"].playtime_remaining = 0
    /\ inventory = << >>

\* whether the inventory holds a Consumable named item_name
HasConsumable(inv, item_name) ==
    \E k \in 1..Len(inv) :
        inv[k].name = item_name /\ inv[k].item_type = "Consumable"

FirstConsumable(inv, item_name) ==
    CHOOSE k \in 1..Len(inv) :
        /\ inv[k].name = item_name /\ inv[k].item_type = "Consumable"
        /\ \A j \in 1..(k - 1) :
              ~(inv[j].name = item_name /\ inv[j].item_type = "Consumable")

\* C5: with a Consumable named itemName in the inventory and gameName an
\* owned game of playtime p, use_item leaves that game with 2*p, removes the
\* first matching item and no other, keeps the order of the rest, changes no
\* other game and no balance, and returns the success message.
C5_ConsumableDoubleAndRemove ==
    [][\A i \in ItemNames, g \in GameNames :
         (op' = "use_item" /\ HasConsumable(inventory, i) /\ UseItem(i, g)) =>
           LET k == FirstConsumable(inventory, i)
           IN  /\ games' = [games EXCEPT
                              ![g].playtime_remaining = 2 * games[g].playtime_remaining]
               /\ inventory' = SubSeq(inventory, 1, k - 1)
                                  \o SubSeq(inventory, k + 1, Len(inventory))
               /\ balances' = balances
               /\ ret' = UsedMsg(i, g)]_vars

C5_Witness ==
    /\ op = "use_item"
    /\ ret = UsedMsg("Fuel Cell", "Asteroid Mining")
    /\ games["Asteroid Mining"].playtime_remaining = 250
    /\ games["Zero-G Racing"].playtime_remaining = 125
    /\ Len(inventory) = 1
    /\ inventory[1].name = "Fuel Cell"

\* C6: with no Consumable named itemName in the inventory (an Equippable or
\* Collectible of that name does not count), use_item returns the not-found
\* outcome and changes neither the inventory, nor a game, nor a balance.
C6_UseItemFailure ==
    [][\A i \in ItemNames, g \in GameArgs :
         (op' = "use_item" /\ ~HasConsumable(inventory, i) /\ UseItem(i, g)) =>
           /\ ret' = NotFoundMsg
           /\ UNCHANGED <<inventory, games, balances>>]_vars

C6_Witness ==
    /\ op = "use_item"
    /\ ret = NotFoundMsg
    /\ Len(inventory) = 2
    /\ \A k \in 1..2 : inventory[k].name = "Mining Laser"
    /\ \A n \in FedGames : games[n].playtime_remaining = 125

\* C8: from a fresh session, whatever run, idle_progress, roll_gacha,
\* use_item, add_playtime and play calls with arguments >= 0 were made, the
\* playtime of every game entity is at least zero.
C8_PlaytimeNonNegative ==
    \A n \in GameNames : games[n].playtime_remaining >= 0

C8_Witness ==
    /\ op = "play"
    /\ ret = PyBool(FALSE)
    /\ \E n \in GameNames : games[n].playtime_remaining = 250
    /\ inventory # << >>

\* C7: play(d) on a game entity returns true and takes exactly d from its
\* playtime when the playtime is at least d, and otherwise returns false;
\* nothing else changes in either case.
C7_PlayAtomic ==
    [][\A n \in GameNames, d \in AnyDurations :
         (op' = "play" /\ Play(n, d)) =>
           LET p == games[n].playtime_remaining
           IN  /\ ret' = PyBool(p >= d)
               /\ games' = IF p >= d
                           THEN [games EXCEPT ![n].playtime_remaining = p - d]
                           ELSE games
               /\ UNCHANGED <<balances, inventory, gacha>>]_vars

C7_Witness ==
    /\ op = "play"
    /\ ret = PyBool(TRUE)
    /\ \E n \in GameNames : games[n].playtime_remaining = 125

\* C11: can_play on a game entity returns true exactly when the entity has
\* no required item or the inventory holds an item of that name, and the
\* call changes neither the inventory, nor a game, nor a balance.
C11_CanPlayPure ==
    [][\A n \in GameNames :
         (op' = "can_play" /\ CanPlay(n)) =>
           /\ ret' = PyBool(\/ games[n].required_item = NoRequiredItem
                            \/ games[n].required_item
                                  \in {inventory[k].name : k \in 1..Len(inventory)})
           /\ UNCHANGED <<balances, inventory, games, gacha>>]_vars

\* refused for Zero-G Racing alone: the Mining Laser is owned, the Gravity
\* Boots are not
C11_Witness ==
    /\ op = "can_play"
    /\ ret = PyBool(FALSE)
    /\ Len(inventory) = 2
    /\ inventory[1].name = "Mining Laser"
    /\ inventory[2].name = "Mining Laser"

\* C12: over boost_progress calls with multipliers >= 0 and progress calls
\* with elapsed times >= 0, interleaved with the session's other calls, the
\* Idle entity's speed multiplier never decreases and stays at least 1, its
\* progress value never decreases, and each progress(t) adds exactly t times
\* the speed multiplier in force at the call.
C12_IdleMonotone ==
    [][LET g == games["Idle"]
           h == games'["Idle"]
       IN  /\ h.speed_multiplier >= g.speed_multiplier
           /\ h.speed_multiplier >= 1
           /\ h.progress_value >= g.progress_value
           /\ \A t \in ElapsedTimes :
                (op' = "idle_progress" /\ IdleProgress(t)) =>
                  h.progress_value = g.progress_value + t * g.speed_multiplier
           /\ \A m \in Multipliers :
                (op' = "boost_progress" /\ BoostProgress(m)) =>
                  h.speed_multiplier = g.speed_multiplier + m]_vars

\* progress after a boost: 2 elapsed seconds at speed 2 made 4
C12_Witness ==
    /\ op = "idle_progress"
    /\ games["Idle"].speed_multiplier = 2
    /\ games["Idle"].progress_value = 4
    /\ Len(inventory) > 0

\* a catalog roll() is specified for: not empty, every rarity weighted
ValidCatalog(items) ==
    /\ items # << >>
    /\ \A i \in 1..Len(items) : items[i].rarity \in DOMAIN rarity_weights

\* C13: on an engine whose catalog is non-empty and has only rarities of the
\* weight table, roll() does not fail, returns a member of the catalog and
\* changes neither the catalog nor the weight table; and every item of such
\* a catalog is a possible result of roll().
C13_RollTotalReadOnly ==
    [][(op' = "roll" /\ ValidCatalog(gacha.items) /\ Roll) =>
         /\ ret'.type = "Item"
         /\ ret' \in Range(gacha.items)
         /\ gacha'.items = gacha.items
         /\ gacha'.rarity_weights = gacha.rarity_weights
         /\ \A x \in Range(gacha.items) :
              /\ gacha.rarity_weights[x.rarity] > 0
              /\ x \in Gacha_roll(gacha)]_vars

\* the last item of a three-item catalog, the rarest of it, was drawn
C13_Witness ==
    /\ op = "roll"
    /\ Len(gacha.items) = 3
    /\ gacha.items[1].rarity = "Common"
    /\ gacha.items[2].rarity = "Rare"
    /\ gacha.items[3].rarity = "Legendary"
    /\ ret = gacha.items[3]

\* C14: roll() draws from a list in which each catalog item appears exactly
\* weight[item.rarity] times, items that share a rarity each with their own
\* share, so the list has as many entries as the weights of all catalog
\* items add up to; for the session's catalog, one item per rarity, it has
\* 100 entries split 60/25/10/5.
Count(seq, x) == Cardinality({k \in 1..Len(seq) : seq[k] = x})

RECURSIVE SumWeights(_, _)
SumWeights(g, i) ==
    IF i > Len(g.items) THEN 0
    ELSE g.rarity_weights[g.items[i].rarity] + SumWeights(g, i + 1)

C14_DrawMultiset ==
    ValidCatalog(gacha.items) =>
      LET w == weighted_items(gacha).list
      IN  /\ Len(w) = SumWeights(gacha, 1)
          /\ \A x \in Range(gacha.items) :
               Count(w, x) = Count(gacha.items, x) * gacha.rarity_weights[x.rarity]
          /\ Gacha_roll(gacha) = {w[k] : k \in 1..Len(w)}
          /\ op = "roll" => \E k \in 1..Len(w) : ret = w[k]
          /\ gacha.items = load_items =>
               /\ Len(w) = 100
               /\ <<Count(w, load_items[1]), Count(w, load_items[2]),
                     Count(w, load_items[3]), Count(w, load_items[4])>>
                    = <<60, 25, 10, 5>>

\* a draw from a catalog with two different Common items and a Rare one
C14_Witness ==
    /\ op = "roll"
    /\ Len(gacha.items) = 3
    /\ gacha.items[1].rarity = "Common"
    /\ gacha.items[2].rarity = "Common"
    /\ gacha.items[1] # gacha.items[2]
    /\ gacha.items[3].rarity = "Rare"
    /\ ret = gacha.items[2]

\* C15: get_status() changes no balance, leaves the inventory as it is in
\* contents and order, and leaves every game's playtime, progress value and
\* speed multiplier unchanged; what it returns holds the session's name, the
\* four balances, one display string per inventory item in the order of
\* acquisition, and one status string per owned game.
C15_GetStatusReadOnly ==
    [][(op' = "get_status" /\ GetStatus) =>
         /\ UNCHANGED <<balances, inventory, games, gacha>>
         /\ ret'.Name = User_name
         /\ DOMAIN ret'.Currency = Kinds
         /\ \A K \in Kinds : ret'.Currency[K] = balances[K]
         /\ Len(ret'.Inventory) = Len(inventory)
         /\ \A k \in 1..Len(inventory) :
              ret'.Inventory[k].args =
                <<inventory[k].rarity, inventory[k].item_type,
                  inventory[k].name, inventory[k].description>>
         /\ DOMAIN ret'.Games = GameNames
         /\ \A n \in GameNames :
              /\ ret'.Games[n].type = "str"
              /\ ret'.Games[n].args[1] = games[n].name
              /\ ret'.Games[n].args[Len(ret'.Games[n].args) - (IF n = "Idle" THEN 0 ELSE 1)]
                   = games[n].playtime_remaining]_vars

\* a snapshot of two different items, a token left and playtime earned
C15_Witness ==
    /\ op = "get_status"
    /\ Len(inventory) = 2
    /\ inventory[1].name = "Fuel Cell"
    /\ inventory[2].name = "Mining Laser"
    /\ ret.Inventory[2].args[3] = "Mining Laser"
    /\ games["Asteroid Mining"].playtime_remaining = 125
    /\ balances["Bonus Coins"] > 0

\* C16: in every state the session reaches by run, idle_progress,
\* roll_gacha, use_item, play and adds of Gacha Tokens, the tokens added less
\* the token balance is the number of roll_gacha calls that returned an
\* item, which is the length of the inventory plus the number of use_item
\* calls that succeeded; only roll_gacha lowers the token balance or
\* lengthens the inventory, and only use_item shortens it.
C16_TokenItemConservation ==
    [][/\ tally'.added - balances'["Gacha Tokens"] = tally'.rolled
       /\ tally'.rolled = Len(inventory') + tally'.used
       /\ balances'["Gacha Tokens"] < balances["Gacha Tokens"] => op' = "roll_gacha"
       /\ Len(inventory') > Len(inventory) => op' = "roll_gacha"
       /\ Len(inventory') < Len(inventory) => op' = "use_item"
       /\ op' = "roll_gacha" =>
            tally'.rolled - tally.rolled = (IF ret'.type = "Item" THEN 1 ELSE 0)
       /\ op' = "use_item" =>
            tally'.used - tally.used = (IF ret' = NotFoundMsg THEN 0 ELSE 1)
       /\ tally'.added - tally.added =
            (IF op' = "add" THEN balances'["Gacha Tokens"] - balances["Gacha Tokens"]
             ELSE 0)]_vars

\* two tokens added, both rolled, one of the two items used up
C16_Witness ==
    /\ tally = [added |-> 2, rolled |-> 2, used |-> 1]
    /\ Len(inventory) = 1
    /\ balances["Gacha Tokens"] = 0
    /\ op = "use_item"
    /\ ret # NotFoundMsg

\* C17: play on a game that requires an item does not ask can_play: play(d)
\* returns true and takes d from the playtime exactly when the playtime is at
\* least d, the same when the inventory lacks the required item as when it
\* holds it, and the inventory is not touched.
GatedGames == {n \in GameNames : User_games[n].required_item # NoRequiredItem}

C17_PlayIgnoresGate ==
    [][\A n \in GatedGames, d \in PlayAmounts :
         (op' = "play" /\ Play(n, d)) =>
           LET p == games[n].playtime_remaining
               expected == IF p >= d
                           THEN [games EXCEPT ![n].playtime_remaining = p - d]
                           ELSE games
           IN  /\ Game_can_play(games[n], inventory) = PyBool(FALSE) =>
                    ret' = PyBool(p >= d) /\ games' = expected
               /\ Game_can_play(games[n], inventory) = PyBool(TRUE) =>
                    ret' = PyBool(p >= d) /\ games' = expected
               /\ UNCHANGED <<balances, inventory, gacha>>]_vars

\* a play that took playtime while nothing had ever been rolled: Asteroid
\* Mining is locked and is the only fed game below its 125 seconds
C17_Witness ==
    /\ op = "play"
    /\ ret = PyBool(TRUE)
    /\ inventory = << >>
    /\ tally.rolled = 0
    /\ games["Asteroid Mining"].playtime_remaining = 0
    /\ games["Zero-G Racing"].playtime_remaining = 125
    /\ games["Idle"].playtime_remaining = 125
    /\ balances["Base Coins"] = 250

\* C18: in every state reached from a fresh session by run, idle_progress,
\* roll_gacha and use_item (and the other session calls), each inventory
\* entry is one of the items of the catalog loaded at construction, and the
\* owned game names are those of construction.
C18_InventoryFromCatalog ==
    /\ \A k \in 1..Len(inventory) : inventory[k] \in Range(load_items)
    /\ gacha.items = load_items
    /\ DOMAIN games = DOMAIN User_games

\* two rolled items, of which one was used up on a game
C18_Witness ==
    /\ op = "use_item"
    /\ ret = UsedMsg("Fuel Cell", "Zero-G Racing")
    /\ tally.rolled = 2
    /\ Len(inventory) = 1
    /\ inventory[1] = load_items[3]

\* C19: with a Consumable named itemName in the inventory and gameName not
\* a key of the game map, use_item returns the not-found outcome and keeps
\* the inventory, the consumable included, every game's playtime and every
\* balance as they were.
C19_UnknownGameKeepsItem ==
    [][\A i \in ItemNames :
         (op' = "use_item" /\ HasConsumable(inventory, i)
            /\ UnknownGame \notin DOMAIN games /\ UseItem(i, UnknownGame)) =>
           /\ ret' = NotFoundMsg
           /\ inventory' = inventory
           /\ HasConsumable(inventory', i)
           /\ \A n \in GameNames :
                games'[n].playtime_remaining = games[n].playtime_remaining
           /\ games' = games
           /\ balances' = balances]_vars

\* not found although the inventory holds two Fuel Cells
C19_Witness ==
    /\ op = "use_item"
    /\ ret = NotFoundMsg
    /\ Len(inventory) = 2
    /\ \A k \in 1..2 : inventory[k] = load_items[4]

\* C9: add and spend on a kind that is not in the ledger, with any amount
\* >= 0, raise nothing, change no balance and add no key.
C9_UnknownKindIgnored ==
    [][\A a \in AddAmounts :
         (Add(UnknownKind, a) \/ Spend(UnknownKind, a)) =>
           /\ ret'.type # "raise"
           /\ balances' = balances
           /\ DOMAIN balances' = Kinds]_vars

\* C10: an engine over an empty catalog, or over one with a rarity that is
\* not in the weight table, is rejected when it is constructed, so roll()
\* on a constructed engine never fails.
C10_ValidatedAtConstruction ==
    /\ (op = "Gacha" /\ ret.type # "raise") => ValidCatalog(gacha.items)
    /\ op = "roll" => ret.type # "raise"

====
